---- MODULE Spec2Model ----
(***************************************************************************)
(* codeguard: a project-convention checker.  Module (module.py) derives    *)
(* the expected test file and API reference file of one source module and  *)
(* checks / fixes them; Checker (checker.py) runs the checks over every    *)
(* module, scans for unexpected files and reports; cli (cli.py) is the     *)
(* command-line entry point.                                               *)
(*                                                                         *)
(* Text is modelled as a sequence of one-character strings, so that        *)
(* str.strip, str.startswith, str.removeprefix, str.splitlines, readline   *)
(* and str.title are computed as Python computes them.                     *)
(***************************************************************************)
EXTENDS Integers, Sequences, FiniteSets, TLC

(***************************************************************************)
(* Characters.                                                             *)
(***************************************************************************)
NL == "\n"
FF == "\f"
SP == " "
DQ == "\""
SQ == "'"

\* str.strip() with no argument removes whitespace; the whitespace of the
\* model's alphabet is the space, the newline and the form feed.
Whitespace == {SP, NL, FF}

\* readline() on a text file ends a line at "\n" only (universal newlines);
\* str.splitlines() also ends a line at a form feed (and other separators
\* outside the model's alphabet).
FileLineEnds == {NL}
SplitLineEnds == {NL, FF}

DQ3 == <<DQ, DQ, DQ>>
SQ3 == <<SQ, SQ, SQ>>

(***************************************************************************)
(* Python str operations.                                                  *)
(***************************************************************************)
StartsWith(s, p) ==
    /\ Len(s) >= Len(p)
    /\ SubSeq(s, 1, Len(p)) = p

EndsWith(s, p) ==
    /\ Len(s) >= Len(p)
    /\ SubSeq(s, Len(s) - Len(p) + 1, Len(s)) = p

RemovePrefix(s, p) ==
    IF StartsWith(s, p) THEN SubSeq(s, Len(p) + 1, Len(s)) ELSE s

RemoveSuffix(s, p) ==
    IF EndsWith(s, p) THEN SubSeq(s, 1, Len(s) - Len(p)) ELSE s

RECURSIVE LStrip(_)
LStrip(s) ==
    IF s # <<>> /\ Head(s) \in Whitespace THEN LStrip(Tail(s)) ELSE s

RECURSIVE RStrip(_)
RStrip(s) ==
    IF s # <<>> /\ s[Len(s)] \in Whitespace
    THEN RStrip(SubSeq(s, 1, Len(s) - 1))
    ELSE s

Strip(s) == RStrip(LStrip(s))

\* str.replace(old, new) for one-character old and new.
ReplaceChar(s, old, new) ==
    [i \in 1..Len(s) |-> IF s[i] = old THEN new ELSE s[i]]

\* The cased letters of the model's alphabet.
LowerLetters == <<"a", "b", "c", "i", "l", "u">>
UpperLetters == <<"A", "B", "C", "I", "L", "U">>

IsLower(c) == \E k \in 1..Len(LowerLetters) : LowerLetters[k] = c
IsUpper(c) == \E k \in 1..Len(UpperLetters) : UpperLetters[k] = c
IsCased(c) == IsLower(c) \/ IsUpper(c)

ToUpper(c) ==
    IF IsLower(c)
    THEN UpperLetters[CHOOSE k \in 1..Len(LowerLetters) : LowerLetters[k] = c]
    ELSE c

ToLower(c) ==
    IF IsUpper(c)
    THEN LowerLetters[CHOOSE k \in 1..Len(UpperLetters) : UpperLetters[k] = c]
    ELSE c

\* str.title(): a cased character is upper-cased when it follows an uncased
\* character (or starts the string) and lower-cased otherwise.
Title(s) ==
    [i \in 1..Len(s) |->
        IF i = 1 \/ ~IsCased(s[i - 1]) THEN ToUpper(s[i]) ELSE ToLower(s[i])]

\* First index of s holding a character of set ends, or 0.
FirstIn(s, ends) ==
    IF \E i \in 1..Len(s) : s[i] \in ends
    THEN CHOOSE i \in 1..Len(s) :
            /\ s[i] \in ends
            /\ \A j \in 1..(i - 1) : s[j] \notin ends
    ELSE 0

\* TextIO.readline(): the text up to and including the first "\n".
ReadLine(content) ==
    LET k == FirstIn(content, FileLineEnds)
    IN  IF k = 0 THEN content ELSE SubSeq(content, 1, k)

\* The lines of a text ended by the characters of ends, terminators dropped,
\* with no empty last line after a final terminator (str.splitlines()).
RECURSIVE SplitAt(_, _)
SplitAt(s, ends) ==
    IF s = <<>> THEN <<>>
    ELSE LET k == FirstIn(s, ends)
         IN  IF k = 0 THEN <<s>>
             ELSE <<SubSeq(s, 1, k - 1)>> \o SplitAt(SubSeq(s, k + 1, Len(s)), ends)

SplitLines(content) == SplitAt(content, SplitLineEnds)

\* sep.join(lines)
RECURSIVE Join(_, _)
Join(lines, sep) ==
    IF lines = <<>> THEN <<>>
    ELSE IF Len(lines) = 1 THEN lines[1]
    ELSE lines[1] \o sep \o Join(Tail(lines), sep)

(***************************************************************************)
(* Paths.  A path is a record: the root it lies under ("modules", "tests"  *)
(* or "ref"), the directory components below the root and the file name.   *)
(***************************************************************************)
Path(root, dir, name) == [root |-> root, dir |-> dir, name |-> name]

\* The name of the modules source directory (modules_dir.name).
ModulesDirName == <<"p">>

DOT == "."
PY == <<DOT, "p", "y">>
MD == <<DOT, "m", "d">>
TEST_ == <<"t", "e", "s", "t", "_">>

\* str.rfind(".") + 1: the last index holding a dot, or 0.
LastDot(name) ==
    IF \E i \in 1..Len(name) : name[i] = DOT
    THEN CHOOSE i \in 1..Len(name) :
            /\ name[i] = DOT
            /\ \A j \in (i + 1)..Len(name) : name[j] # DOT
    ELSE 0

\* PurePath.suffix and PurePath.stem: the suffix starts at the last dot,
\* unless that dot starts or ends the name.
Suffix(name) ==
    LET i == LastDot(name)
    IN  IF 1 < i /\ i < Len(name) THEN SubSeq(name, i, Len(name)) ELSE <<>>

Stem(name) ==
    LET i == LastDot(name)
    IN  IF 1 < i /\ i < Len(name) THEN SubSeq(name, 1, i - 1) ELSE name

\* PurePath.with_suffix(suffix) and PurePath.with_name(name).
WithSuffix(p, suffix) == [p EXCEPT !.name = Stem(p.name) \o suffix]
WithName(p, name) == [p EXCEPT !.name = name]

\* root / path.relative_to(old_root)
ReRoot(p, root) == [p EXCEPT !.root = root]

(***************************************************************************)
(* Files.  A path is absent or a regular file with a content; the flags    *)
(* say whether the operating system lets the process read it, write it     *)
(* (for an absent path: create it and its parent directories) and unlink   *)
(* it.  A directory at the path behaves as an absent path that cannot be   *)
(* written (is_file() is false, write_text raises) or, for a scan, as an   *)
(* entry that cannot be unlinked.                                          *)
(***************************************************************************)
File(content, r, w, d) ==
    [kind |-> "file", content |-> content, r |-> r, w |-> w, d |-> d]

Absent(w) ==
    [kind |-> "absent", content |-> <<>>, r |-> TRUE, w |-> w, d |-> TRUE]

IsFile(f) == f.kind = "file"

\* Path.write_text(text): the new state of the file, when the write succeeds.
WriteText(f, text) == [f EXCEPT !.kind = "file", !.content = text]

(***************************************************************************)
(* Module (module.py).                                                     *)
(***************************************************************************)
STR_Cli == <<"C", "l", "i">>
STR_CLI == <<"C", "L", "I">>
STR_Geotiff == <<"G", "e", "o", "t", "i", "f", "f">>
STR_GeoTIFF == <<"G", "e", "o", "T", "I", "F", "F">>
STR_cli == <<"c", "l", "i">>
STR_Tests == <<"T", "e", "s", "t", "s", ":", SP>>

\* MODULE_NAME_EXCEPTIONS.get(name, name)
MODULE_NAME_EXCEPTIONS(name) ==
    CASE name = STR_Cli -> STR_CLI
      [] name = STR_Geotiff -> STR_GeoTIFF
      [] OTHER -> name

\* Module.read_module_docstring, from the state of the module file: the
\* docstring, or the error raised.
StripQuotes(module_docstring) ==
    Strip(RemoveSuffix(RemoveSuffix(RemovePrefix(RemovePrefix(
        module_docstring, DQ3), SQ3), DQ3), SQ3))

\* read_module_docstring as it would be if a first line that is no docstring
\* were accepted.
read_module_docstring_NoMarkerCheck(f) ==
    IF ~f.r
    THEN [ok |-> FALSE, error |-> "ModuleFileReadingError", value |-> <<>>]
    ELSE [ok |-> TRUE, error |-> "", value |-> StripQuotes(Strip(ReadLine(f.content)))]

read_module_docstring(f) ==
    IF ~f.r
    THEN [ok |-> FALSE, error |-> "ModuleFileReadingError", value |-> <<>>]
    ELSE LET module_docstring == Strip(ReadLine(f.content))
         IN  IF ~StartsWith(module_docstring, DQ3) /\ ~StartsWith(module_docstring, SQ3)
             THEN [ok |-> FALSE, error |-> "ModuleFileMissingDocstringError", value |-> <<>>]
             ELSE [ok |-> TRUE, error |-> "", value |-> StripQuotes(module_docstring)]

\* Module.generate_test_docstring
generate_test_docstring(module_docstring) ==
    DQ3 \o STR_Tests \o module_docstring \o DQ3

\* Module.generate_ref_content.  The lines of the fixed mkdocs-click block
\* are single elements of the text: none is whitespace, and the block is
\* only ever compared as a whole.
generate_ref_content(cli, name, qualname) ==
    IF cli
    THEN <<"#", SP>> \o name \o
         <<NL, NL, "::: mkdocs-click", NL, "    :module: rrod.cli", NL,
           "    :command: cli", NL, "    :prog_name: rrod", NL, "    :style: table">>
    ELSE <<"#", SP>> \o name \o <<NL, NL, ":", ":", ":", SP>> \o qualname

\* module_file.relative_to(modules_dir.parent).with_suffix("").as_posix()
\*     .replace("/", ".")
RECURSIVE Dotted(_)
Dotted(parts) ==
    IF parts = <<>> THEN <<>>
    ELSE IF Len(parts) = 1 THEN parts[1]
    ELSE parts[1] \o <<DOT>> \o Dotted(Tail(parts))

Qualname(module_file) ==
    Dotted(<<ModulesDirName>> \o module_file.dir \o <<Stem(module_file.name)>>)

\* Module.__init__, after the module file was found and its docstring read.
Module(module_file, module_docstring) ==
    LET stem == Stem(module_file.name)
        name == MODULE_NAME_EXCEPTIONS(Title(ReplaceChar(stem, "_", SP)))
        qualname == Qualname(module_file)
        cli == (stem = STR_cli)
    IN  [module_file |-> module_file,
         name |-> name,
         qualname |-> qualname,
         cli |-> cli,
         test_file |-> WithName(ReRoot(module_file, "tests"), TEST_ \o module_file.name),
         ref_file |-> WithSuffix(ReRoot(module_file, "ref"), MD),
         module_docstring |-> module_docstring,
         test_docstring |-> generate_test_docstring(module_docstring),
         ref_content |-> generate_ref_content(cli, name, qualname)]

\* The exceptions of exceptions.py: the type, the file, and the texts the
\* message carries (found is empty when the message carries none).
Error(type, file, expected, found) ==
    [type |-> type, file |-> file, expected |-> expected, found |-> found]

NoError == [type |-> "None", file |-> <<>>, expected |-> <<>>, found |-> <<>>]

\* str(e): the message built by the exception's __init__.
ErrorText(e) ==
    CASE e.type = "TestFileNotFoundError" -> "Could not find test file"
      [] e.type = "TestFileReadingError" -> "Could not read test file"
      [] e.type = "TestFileDocstringError" ->
            IF e.found = <<>> THEN "Missing docstring in test file"
                              ELSE "Docstring mismatch in test file"
      [] e.type = "RefFileNotFoundError" ->
            "Could not find API reference documentation file"
      [] e.type = "RefFileReadingError" ->
            "Could not read API reference documentation file"
      [] e.type = "RefFileContentError" ->
            "Content mismatch in API reference documentation file"
      [] OTHER -> ""

\* check_test_file as it would be without the exemption of the entry point.
check_test_file_NoExemption(m, files) ==
    LET f == files[m.test_file]
        found_docstring == Strip(ReadLine(f.content))
    IN  IF ~IsFile(f)
        THEN Error("TestFileNotFoundError", m.test_file, <<>>, <<>>)
        ELSE IF ~f.r
        THEN Error("TestFileReadingError", m.test_file, <<>>, <<>>)
        ELSE IF ~StartsWith(found_docstring, DQ3) /\ ~StartsWith(found_docstring, SQ3)
        THEN Error("TestFileDocstringError", m.test_file, m.test_docstring, <<>>)
        ELSE IF found_docstring # m.test_docstring
        THEN Error("TestFileDocstringError", m.test_file, m.test_docstring,
                   found_docstring)
        ELSE NoError

\* Module.check_test_file: NoError, or the error raised.
check_test_file(m, files) ==
    LET f == files[m.test_file]
        found_docstring == Strip(ReadLine(f.content))
    IN  IF m.cli THEN NoError
        ELSE IF ~IsFile(f)
        THEN Error("TestFileNotFoundError", m.test_file, <<>>, <<>>)
        ELSE IF ~f.r
        THEN Error("TestFileReadingError", m.test_file, <<>>, <<>>)
        ELSE IF ~StartsWith(found_docstring, DQ3) /\ ~StartsWith(found_docstring, SQ3)
        THEN Error("TestFileDocstringError", m.test_file, m.test_docstring, <<>>)
        ELSE IF found_docstring # m.test_docstring
        THEN Error("TestFileDocstringError", m.test_file, m.test_docstring,
                   found_docstring)
        ELSE NoError

\* Module.check_ref_file: NoError, or the error raised.
check_ref_file(m, files) ==
    LET f == files[m.ref_file]
        found_content == Strip(f.content)
    IN  IF ~IsFile(f)
        THEN Error("RefFileNotFoundError", m.ref_file, <<>>, <<>>)
        ELSE IF ~f.r
        THEN Error("RefFileReadingError", m.ref_file, <<>>, <<>>)
        ELSE IF found_content # m.ref_content
        THEN Error("RefFileContentError", m.ref_file, m.ref_content, found_content)
        ELSE NoError

\* The fix operations: the outcome "ok" with the files after the write, or
\* "OSError" with the files as they were (mkdir, read_text or write_text
\* raised).
Done(files) == [raised |-> "None", files |-> files]
Raised(type, files) == [raised |-> type, files |-> files]

\* Module.fix_missing_test_file
fix_missing_test_file(m, files) ==
    LET f == files[m.test_file]
    IN  IF ~f.w THEN Raised("OSError", files)
        ELSE Done([files EXCEPT ![m.test_file] =
                        WriteText(f, m.test_docstring \o <<NL>>)])

\* The new content computed by Module.fix_test_file_docstring.
NewTestContent(content, test_docstring) ==
    LET lines == SplitLines(content)
    IN  IF lines # <<>>
        THEN Join([lines EXCEPT ![1] = test_docstring], <<NL>>)
        ELSE test_docstring

\* Module.fix_test_file_docstring
fix_test_file_docstring(m, files) ==
    LET f == files[m.test_file]
    IN  IF ~IsFile(f) \/ ~f.r \/ ~f.w THEN Raised("OSError", files)
        ELSE Done([files EXCEPT ![m.test_file] =
                        WriteText(f, NewTestContent(f.content, m.test_docstring)
                                     \o <<NL>>)])

\* Module.fix_missing_ref_file
fix_missing_ref_file(m, files) ==
    LET f == files[m.ref_file]
    IN  IF ~f.w THEN Raised("OSError", files)
        ELSE Done([files EXCEPT ![m.ref_file] =
                        WriteText(f, m.ref_content \o <<NL>>)])

\* Module.fix_ref_file_content
fix_ref_file_content(m, files) ==
    LET f == files[m.ref_file]
    IN  IF ~f.w THEN Raised("OSError", files)
        ELSE Done([files EXCEPT ![m.ref_file] =
                        WriteText(f, m.ref_content \o <<NL>>)])

(***************************************************************************)
(* The project on disk.                                                    *)
(***************************************************************************)
\* Module files of the modelled projects: a plain module, the entry-point
\* module at the top of the tree and inside a package, a private module, and
\* a module whose stem ends with a space.
MA == Path("modules", <<>>, <<"a">> \o PY)
MB == Path("modules", <<>>, <<"b", SP>> \o PY)
MU == Path("modules", <<>>, <<"_", "u">> \o PY)
MCli == Path("modules", <<>>, STR_cli \o PY)
MSubCli == Path("modules", << <<"l", "i", "b">> >>, STR_cli \o PY)

ModuleFiles == {MA, MB, MU, MCli, MSubCli}

\* The sets of module files a project may hold.
Layouts == {{MA, MSubCli, MU}, {MB, MCli}}

TestMirror(mf) == WithName(ReRoot(mf, "tests"), TEST_ \o mf.name)
RefMirror(mf) == WithSuffix(ReRoot(mf, "ref"), MD)

IndexMd == Path("ref", <<>>, <<"i">> \o MD)
HelperPy == Path("tests", <<>>, <<"u">> \o PY)

\* Every path of the tests tree and of the reference tree the model tracks.
Paths ==
    {TestMirror(mf) : mf \in ModuleFiles} \cup {RefMirror(mf) : mf \in ModuleFiles}
        \cup {IndexMd, HelperPy}

\* Contents of module files.
GoodModule == DQ3 \o <<"A">> \o DQ3 \o <<NL, "x", NL>>
NoDocModule == <<"x", NL>> \o DQ3 \o <<"A">> \o DQ3 \o <<NL>>

\* Scanned as it would be if the private module files were not left out.
Scanned_WithPrivate(mfs) ==
    {mf \in DOMAIN mfs : IsFile(mfs[mf]) /\ EndsWith(mf.name, PY)}

\* for mf in modules_dir.rglob("*.py") if not mf.name.startswith("_")
Scanned(mfs) ==
    {mf \in DOMAIN mfs :
        /\ IsFile(mfs[mf])
        /\ EndsWith(mf.name, PY)
        /\ ~StartsWith(mf.name, <<"_">>)}

\* The sequences that enumerate set S once each: the orders in which a
\* directory scan may yield its entries.
Orders(S) ==
    {o \in [1..Cardinality(S) -> S] : \A x \in S : \E i \in DOMAIN o : o[i] = x}

(***************************************************************************)
(* Checker (checker.py): the operations as functions of the files.         *)
(***************************************************************************)
\* An outcome message: the prefix that tells its kind, and the text of the
\* error or of the unexpected-file notice it carries.
Msg(tag, text, file, expected, found) ==
    [tag |-> tag, text |-> text, file |-> file, expected |-> expected,
     found |-> found]

NoMsg == Msg("None", "", <<>>, <<>>, <<>>)
FixedMsg(e) == Msg("[green]Fixed: ", ErrorText(e), e.file, e.expected, e.found)
ErrorMsg(e) == Msg("[red]", ErrorText(e), e.file, e.expected, e.found)

\* The result of a step: the message returned (when nothing was raised),
\* the files afterwards and the exception that escaped, if any.
Step(msg, fs, exc) == [msg |-> msg, files |-> fs, raised |-> exc]

\* Checker.check_module_test_file
check_module_test_file(m, fs, fix) ==
    LET e == check_test_file(m, fs)
    IN  IF e = NoError THEN Step(NoMsg, fs, "None")
        ELSE IF fix /\ e.type = "TestFileNotFoundError"
        THEN LET r == fix_missing_test_file(m, fs)
             IN  Step(FixedMsg(e), r.files, r.raised)
        ELSE IF fix /\ e.type = "TestFileDocstringError"
        THEN LET r == fix_test_file_docstring(m, fs)
             IN  Step(FixedMsg(e), r.files, r.raised)
        ELSE Step(ErrorMsg(e), fs, "None")

\* Checker.check_module_ref_file
check_module_ref_file(m, fs, fix) ==
    LET e == check_ref_file(m, fs)
    IN  IF e = NoError THEN Step(NoMsg, fs, "None")
        ELSE IF fix /\ e.type = "RefFileNotFoundError"
        THEN LET r == fix_missing_ref_file(m, fs)
             IN  Step(FixedMsg(e), r.files, r.raised)
        ELSE IF fix /\ e.type = "RefFileContentError"
        THEN LET r == fix_ref_file_content(m, fs)
             IN  Step(FixedMsg(e), r.files, r.raised)
        ELSE Step(ErrorMsg(e), fs, "None")

\* [msg for msg in (test_msg, ref_msg) if msg]
ModuleMsgs(tmsg, rmsg) ==
    (IF tmsg = NoMsg THEN <<>> ELSE <<tmsg>>) \o (IF rmsg = NoMsg THEN <<>> ELSE <<rmsg>>)

\* check_modules: the dict after check_module(module) returned msgs.
AddModuleMsgs(dict, i, ms) ==
    IF ms # <<>> THEN Append(dict, [module |-> i, msgs |-> ms]) ELSE dict

\* The entries rglob("test_*.py") yields under the tests root and
\* rglob("*.md") under the reference root.
TestGlob(fs) ==
    {p \in DOMAIN fs :
        /\ p.root = "tests"
        /\ IsFile(fs[p])
        /\ StartsWith(p.name, TEST_)
        /\ EndsWith(p.name, PY)
        /\ Len(p.name) >= Len(TEST_) + Len(PY)}

RefGlob(fs) ==
    {p \in DOMAIN fs :
        /\ p.root = "ref"
        /\ IsFile(fs[p])
        /\ EndsWith(p.name, MD)}

\* ModuleFileOfTest as it would be if the test_ prefix were not removed.
ModuleFileOfTest_KeepPrefix(test_file) == ReRoot(test_file, "modules")

\* The module file a test file or a reference file stands for.
ModuleFileOfTest(test_file) ==
    WithName(ReRoot(test_file, "modules"), RemovePrefix(test_file.name, TEST_))

\* ModuleFileOfRef as it would be if the suffix were not swapped back.
ModuleFileOfRef_KeepSuffix(ref_file) == ReRoot(ref_file, "modules")

ModuleFileOfRef(ref_file) ==
    WithSuffix(ReRoot(ref_file, "modules"), PY)

\* {m.module_file for m in self.modules}
ValidModuleFiles(mods) == {mods[i].module_file : i \in DOMAIN mods}

\* One iteration of a loop of _check_unexpected_files on entry p, which
\* stands for module file mf: the files, the messages and the paths whose
\* unlink failed, afterwards.
ScanOne(acc, p, mf, valid, remove, text) ==
    IF mf \in valid THEN acc
    ELSE IF remove /\ acc.files[p].d
    THEN [acc EXCEPT !.files[p] = Absent(acc.files[p].w),
                     !.msgs = Append(@, Msg("[green]Removed: ", text, p, <<>>, <<>>))]
    ELSE IF remove
    THEN [acc EXCEPT !.msgs = Append(@, Msg("[red]Error removing: ", text, p,
                                            <<>>, <<"O", "S", "E", "r", "r", "o", "r">>)),
                     !.failed = @ \cup {p}]
    ELSE [acc EXCEPT !.msgs = Append(@, Msg("[red]", text, p, <<>>, <<>>))]

RECURSIVE ScanTests(_, _, _, _)
ScanTests(acc, order, valid, remove) ==
    IF order = <<>> THEN acc
    ELSE ScanTests(ScanOne(acc, Head(order), ModuleFileOfTest(Head(order)), valid,
                           remove, "Unexpected test file"),
                   Tail(order), valid, remove)

RECURSIVE ScanRefs(_, _, _, _)
ScanRefs(acc, order, valid, remove) ==
    IF order = <<>> THEN acc
    ELSE ScanRefs(ScanOne(acc, Head(order), ModuleFileOfRef(Head(order)), valid,
                          remove, "Unexpected API reference documentation file"),
                  Tail(order), valid, remove)

\* Checker.check: the value of overall_errors when it returns.
OverallErrors(dict, ms) == (dict # <<>>) \/ (ms # <<>>)

\* Checker.check: the lines printed.
RECURSIVE PrintModules(_, _)
PrintModules(dict, mods) ==
    IF dict = <<>> THEN <<>>
    ELSE <<Msg("[bold]", "", mods[Head(dict).module].qualname, <<>>, <<>>)>>
         \o Head(dict).msgs \o PrintModules(Tail(dict), mods)

Printed(dict, ms, mods) ==
    (IF dict # <<>> THEN PrintModules(dict, mods) ELSE <<>>)
    \o (IF ms # <<>>
        THEN <<Msg("[bold]", "Unexpected files:", <<>>, <<>>, <<>>)>> \o ms
        ELSE <<>>)
    \o (IF ~OverallErrors(dict, ms)
        THEN <<Msg("[bold green]", "All checks passed!", <<>>, <<>>, <<>>)>>
        ELSE <<>>)

\* cli: the command returns None whatever check() returned, so the process
\* ends with status 0 unless an exception escaped.
ExitStatus(check_result) == 0

(***************************************************************************)
(* State.                                                                  *)
(***************************************************************************)
VARIABLES
    missing_dir,    \* the required directory that does not exist, or "none"
    modfiles,       \* the module files under the modules root
    files,          \* the files under the tests root and the reference root
    auto_fix,       \* --fix
    auto_remove,    \* --rm
    pc,             \* the position of the run
    run,            \* the number of the current invocation
    modules,        \* Checker.modules
    idx,            \* check_modules: index of the module being checked
    test_msg,       \* check_module: test_msg
    module_msgs,    \* check_modules: the dict being built
    msgs,           \* _check_unexpected_files: msgs
    overall_errors, \* check: overall_errors, once check() returned
    printed,        \* the lines check() printed
    raised,         \* the exception that escaped the run, or "None"
    exit_status,    \* the exit status of the process, -1 while it runs
    os_failed,      \* the paths a write or an unlink of this run failed on
    history,        \* the outcome of each earlier invocation
    op              \* the last Module operation called directly

vars ==
    <<missing_dir, modfiles, files, auto_fix, auto_remove, pc, run, modules, idx,
      test_msg, module_msgs, msgs, overall_errors, printed, raised, exit_status,
      os_failed, history, op>>

\* Bounds of the model.
MaxDirty == 2
MaxRuns == 2

NoOp == [name |-> "none", module |-> 0, raised |-> "None", before |-> <<>>]

(***************************************************************************)
(* Initial states: a project that follows the convention, but for at most  *)
(* MaxDirty places (a file of the tests or reference tree, a module file,  *)
(* a required directory) that do not.                                      *)
(***************************************************************************)
BaseModule(mf) ==
    Module(mf, read_module_docstring(File(GoodModule, TRUE, TRUE, TRUE)).value)

Mismatch == DQ3 \o <<"x">> \o DQ3 \o <<NL, "b", NL>>
NoDocTest == <<"x", NL, "b">>

TestAlts ==
    <<Absent(TRUE), Absent(FALSE),
      File(Mismatch, TRUE, TRUE, TRUE), File(NoDocTest, TRUE, TRUE, TRUE),
      File(<<>>, TRUE, TRUE, TRUE),
      File(Mismatch, FALSE, TRUE, TRUE), File(Mismatch, TRUE, FALSE, TRUE)>>

RefAlts ==
    <<Absent(TRUE), Absent(FALSE),
      File(<<"x", NL>>, TRUE, TRUE, TRUE),
      File(<<"x", NL>>, FALSE, TRUE, TRUE), File(<<"x", NL>>, TRUE, FALSE, TRUE)>>

OrphanAlts == <<File(<<"x", NL>>, TRUE, TRUE, TRUE), File(<<"x", NL>>, TRUE, TRUE, FALSE)>>

ModuleAlts ==
    <<File(NoDocModule, TRUE, TRUE, TRUE), File(GoodModule, FALSE, TRUE, TRUE)>>

DirAlts ==
    <<"project", "source", "modules source", "test", "documentation",
      "API reference documentation">>

DirSlot == Path("dirs", <<>>, <<>>)

\* The module files of layout L that the scan constructs a Module for.
Public(L) == {mf \in L : ~StartsWith(mf.name, <<"_">>)}

Slots == Paths \cup ModuleFiles \cup {DirSlot}

Alts(L, s) ==
    IF s = DirSlot THEN DirAlts
    ELSE IF s.root = "modules" THEN (IF s \in Public(L) THEN ModuleAlts ELSE <<>>)
    ELSE IF \E mf \in Public(L) : s = TestMirror(mf) THEN TestAlts
    ELSE IF \E mf \in Public(L) : s = RefMirror(mf) THEN RefAlts
    ELSE OrphanAlts

Base(L, s) ==
    IF s.root = "modules"
    THEN (IF s \in L THEN File(GoodModule, TRUE, TRUE, TRUE) ELSE Absent(TRUE))
    ELSE IF \E mf \in Public(L) : s = TestMirror(mf)
    THEN File(BaseModule(CHOOSE mf \in Public(L) : s = TestMirror(mf)).test_docstring
              \o <<NL>>, TRUE, TRUE, TRUE)
    ELSE IF \E mf \in Public(L) : s = RefMirror(mf)
    THEN File(BaseModule(CHOOSE mf \in Public(L) : s = RefMirror(mf)).ref_content
              \o <<NL>>, TRUE, TRUE, TRUE)
    ELSE Absent(TRUE)

MostAlts == Len(TestAlts)

InitRun ==
    /\ pc = "start"
    /\ run = 1
    /\ modules = <<>>
    /\ idx = 0
    /\ test_msg = NoMsg
    /\ module_msgs = <<>>
    /\ msgs = <<>>
    /\ overall_errors = FALSE
    /\ printed = <<>>
    /\ raised = "None"
    /\ exit_status = -1
    /\ os_failed = {}
    /\ history = <<>>
    /\ op = NoOp

Init ==
    /\ \E L \in Layouts, D \in SUBSET Slots :
        /\ Cardinality(D) <= MaxDirty
        /\ \E alt \in [D -> 1..MostAlts] :
            /\ \A s \in D : alt[s] <= Len(Alts(L, s))
            /\ missing_dir = IF DirSlot \in D THEN DirAlts[alt[DirSlot]] ELSE "none"
            /\ modfiles = [mf \in ModuleFiles |->
                            IF mf \in D THEN Alts(L, mf)[alt[mf]] ELSE Base(L, mf)]
            /\ files = [p \in Paths |->
                            IF p \in D THEN Alts(L, p)[alt[p]] ELSE Base(L, p)]
    /\ auto_fix \in BOOLEAN
    /\ auto_remove \in BOOLEAN
    /\ InitRun

(***************************************************************************)
(* The run of the command: cli -> Checker.from_project -> Checker.check.   *)
(***************************************************************************)
\* An exception escapes: the process ends with a traceback and status 1.
Abort(exc) ==
    /\ raised' = exc
    /\ exit_status' = 1
    /\ pc' = "exited"

\* Checker.from_project and Checker.__init__: the directories are looked up
\* and one Module is constructed per scanned module file, in the order the
\* scan yields them; the first that fails to construct raises.
FromProject ==
    /\ pc = "start"
    /\ IF missing_dir # "none"
       THEN /\ Abort("DirNotFoundError")
            /\ UNCHANGED <<modules, idx>>
       ELSE \E order \in Orders(Scanned(modfiles)) :
            LET bad == {i \in DOMAIN order : ~read_module_docstring(modfiles[order[i]]).ok}
                first == CHOOSE i \in bad : \A j \in bad : i <= j
            IN  IF bad # {}
                THEN /\ Abort(read_module_docstring(modfiles[order[first]]).error)
                     /\ UNCHANGED <<modules, idx>>
                ELSE /\ modules' = [i \in DOMAIN order |->
                            Module(order[i], read_module_docstring(modfiles[order[i]]).value)]
                     /\ idx' = 1
                     /\ pc' = IF order = <<>> THEN "scan_tests" ELSE "test"
                     /\ UNCHANGED <<raised, exit_status>>
    /\ UNCHANGED <<missing_dir, modfiles, files, auto_fix, auto_remove, run, test_msg,
                   module_msgs, msgs, overall_errors, printed, os_failed, history, op>>

\* check_module, first half: check_module_test_file(module).
CheckModuleTestFile ==
    /\ pc = "test"
    /\ LET m == modules[idx]
           r == check_module_test_file(m, files, auto_fix)
       IN  IF r.raised # "None"
           THEN /\ Abort(r.raised)
                /\ os_failed' = os_failed \cup {m.test_file}
                /\ UNCHANGED <<files, test_msg>>
           ELSE /\ files' = r.files
                /\ test_msg' = r.msg
                /\ pc' = "ref"
                /\ UNCHANGED <<raised, exit_status, os_failed>>
    /\ UNCHANGED <<missing_dir, modfiles, auto_fix, auto_remove, run, modules, idx,
                   module_msgs, msgs, overall_errors, printed, history, op>>

\* check_module, second half: check_module_ref_file(module); check_module
\* returns and check_modules stores its messages.
CheckModuleRefFile ==
    /\ pc = "ref"
    /\ LET m == modules[idx]
           r == check_module_ref_file(m, files, auto_fix)
       IN  IF r.raised # "None"
           THEN /\ Abort(r.raised)
                /\ os_failed' = os_failed \cup {m.ref_file}
                /\ UNCHANGED <<files, test_msg, module_msgs, idx>>
           ELSE /\ files' = r.files
                /\ module_msgs' = AddModuleMsgs(module_msgs, idx, ModuleMsgs(test_msg, r.msg))
                /\ test_msg' = NoMsg
                /\ idx' = idx + 1
                /\ pc' = IF idx < Len(modules) THEN "test" ELSE "scan_tests"
                /\ UNCHANGED <<raised, exit_status, os_failed>>
    /\ UNCHANGED <<missing_dir, modfiles, auto_fix, auto_remove, run, modules, msgs,
                   overall_errors, printed, history, op>>

\* _check_unexpected_files, first loop: the tests tree.
CheckUnexpectedTests ==
    /\ pc = "scan_tests"
    /\ \E order \in Orders(TestGlob(files)) :
        LET r == ScanTests([files |-> files, msgs |-> <<>>, failed |-> {}], order,
                           ValidModuleFiles(modules), auto_remove)
        IN  /\ files' = r.files
            /\ msgs' = r.msgs
            /\ os_failed' = os_failed \cup r.failed
    /\ pc' = "scan_refs"
    /\ UNCHANGED <<missing_dir, modfiles, auto_fix, auto_remove, run, modules, idx,
                   test_msg, module_msgs, overall_errors, printed, raised, exit_status,
                   history, op>>

\* _check_unexpected_files, second loop: the reference tree.
CheckUnexpectedRefs ==
    /\ pc = "scan_refs"
    /\ \E order \in Orders(RefGlob(files)) :
        LET r == ScanRefs([files |-> files, msgs |-> msgs, failed |-> {}], order,
                          ValidModuleFiles(modules), auto_remove)
        IN  /\ files' = r.files
            /\ msgs' = r.msgs
            /\ os_failed' = os_failed \cup r.failed
    /\ pc' = "report"
    /\ UNCHANGED <<missing_dir, modfiles, auto_fix, auto_remove, run, modules, idx,
                   test_msg, module_msgs, overall_errors, printed, raised, exit_status,
                   history, op>>

\* Checker.check prints the outcomes and returns overall_errors.
Report ==
    /\ pc = "report"
    /\ printed' = Printed(module_msgs, msgs, modules)
    /\ overall_errors' = OverallErrors(module_msgs, msgs)
    /\ pc' = "return"
    /\ UNCHANGED <<missing_dir, modfiles, files, auto_fix, auto_remove, run, modules,
                   idx, test_msg, module_msgs, msgs, raised, exit_status, os_failed,
                   history, op>>

\* cli returns and the process exits.
Exit ==
    /\ pc = "return"
    /\ exit_status' = ExitStatus(overall_errors)
    /\ pc' = "exited"
    /\ UNCHANGED <<missing_dir, modfiles, files, auto_fix, auto_remove, run, modules,
                   idx, test_msg, module_msgs, msgs, overall_errors, printed, raised,
                   os_failed, history, op>>

\* The command is invoked again on the project as the last run left it.
Summary ==
    [module_msgs |-> module_msgs, msgs |-> msgs, overall_errors |-> overall_errors,
     raised |-> raised, exit_status |-> exit_status, os_failed |-> os_failed]

Rerun ==
    /\ pc = "exited"
    /\ run < MaxRuns
    /\ history' = Append(history, Summary)
    /\ run' = run + 1
    /\ pc' = "start"
    /\ modules' = <<>>
    /\ idx' = 0
    /\ test_msg' = NoMsg
    /\ module_msgs' = <<>>
    /\ msgs' = <<>>
    /\ overall_errors' = FALSE
    /\ printed' = <<>>
    /\ raised' = "None"
    /\ exit_status' = -1
    /\ os_failed' = {}
    /\ UNCHANGED <<missing_dir, modfiles, files, auto_fix, auto_remove, op>>

Next ==
    \/ FromProject
    \/ CheckModuleTestFile
    \/ CheckModuleRefFile
    \/ CheckUnexpectedTests
    \/ CheckUnexpectedRefs
    \/ Report
    \/ Exit
    \/ Rerun

Spec == Init /\ [][Next]_vars

(***************************************************************************)
(* The Module operations called directly, one at a time, on one module     *)
(* whose module file, test file and reference file are in any of the       *)
(* states below.                                                           *)
(***************************************************************************)
\* First lines of a module file (followed by a body line).
ModuleLines ==
    {DQ3 \o <<"A">> \o DQ3,
     SQ3 \o <<"A">> \o SQ3,
     <<SP>> \o DQ3 \o <<SP, "A", SP, "b", SP>> \o DQ3 \o <<SP>>,
     DQ3 \o <<"A">>,
     DQ3 \o DQ3,
     DQ3 \o SQ3 \o <<"A">> \o SQ3 \o DQ3,
     SQ3 \o DQ3 \o <<"A">> \o DQ3 \o SQ3,
     DQ3 \o <<"A">> \o SQ3,
     <<DQ, DQ, "A">>,
     <<"x">>,
     <<>>}

UnitModuleFiles == {MA, MB, MSubCli}

\* States of the test file of a module whose expected docstring is d.
UnitTestFiles(d) ==
    {Absent(TRUE), Absent(FALSE),
     File(<<>>, TRUE, TRUE, TRUE),
     File(d \o <<NL>>, TRUE, TRUE, TRUE),
     File(<<SP>> \o d \o <<SP, NL, "b", NL>>, TRUE, TRUE, TRUE),
     File(d \o <<NL, FF, NL, "b", NL>>, TRUE, TRUE, TRUE),
     File(Mismatch, TRUE, TRUE, TRUE),
     File(SQ3 \o <<"x">> \o SQ3 \o <<NL, FF, NL, "b">>, TRUE, TRUE, TRUE),
     File(NoDocTest, TRUE, TRUE, TRUE),
     File(<<"x", FF, "y", NL, "z", NL>>, TRUE, TRUE, TRUE),
     File(<<NL>> \o d \o <<NL>>, TRUE, TRUE, TRUE),
     File(Mismatch, FALSE, TRUE, TRUE),
     File(Mismatch, TRUE, FALSE, TRUE)}

\* States of the reference file of a module whose expected content is c.
UnitRefFiles(c) ==
    {Absent(TRUE), Absent(FALSE),
     File(<<>>, TRUE, TRUE, TRUE),
     File(c \o <<NL>>, TRUE, TRUE, TRUE),
     File(<<NL, SP>> \o c \o <<SP, NL, NL>>, TRUE, TRUE, TRUE),
     File(c \o <<NL, "x", NL>>, TRUE, TRUE, TRUE),
     File(<<"x", NL>>, FALSE, TRUE, TRUE),
     File(<<"x", NL>>, TRUE, FALSE, TRUE)}

InitModule ==
    /\ \E mf \in UnitModuleFiles, line \in ModuleLines, readable \in BOOLEAN :
        LET doc == read_module_docstring(File(line, TRUE, TRUE, TRUE))
            m == Module(mf, doc.value)
        IN  /\ modfiles = [x \in ModuleFiles |->
                            IF x = mf THEN File(line \o <<NL, "x", NL>>, readable, TRUE, TRUE)
                            ELSE Absent(TRUE)]
            /\ \E t \in UnitTestFiles(m.test_docstring), r \in UnitRefFiles(m.ref_content) :
                files = [p \in Paths |->
                            IF p = m.test_file THEN t
                            ELSE IF p = m.ref_file THEN r
                            ELSE Absent(TRUE)]
    /\ missing_dir = "none"
    /\ auto_fix = FALSE
    /\ auto_remove = FALSE
    /\ pc = "new"
    /\ run = 1
    /\ modules = <<>>
    /\ idx = 0
    /\ test_msg = NoMsg
    /\ module_msgs = <<>>
    /\ msgs = <<>>
    /\ overall_errors = FALSE
    /\ printed = <<>>
    /\ raised = "None"
    /\ exit_status = -1
    /\ os_failed = {}
    /\ history = <<>>
    /\ op = NoOp

UnitFrame ==
    UNCHANGED <<missing_dir, modfiles, auto_fix, auto_remove, run, idx, test_msg,
                module_msgs, msgs, overall_errors, printed, exit_status, os_failed,
                history>>

\* Module(module_file, ...): Module.__init__ on the module file.
NewModule ==
    /\ pc = "new"
    /\ \E mf \in Scanned(modfiles) :
        LET doc == read_module_docstring(modfiles[mf])
        IN  IF doc.ok
            THEN /\ modules' = <<Module(mf, doc.value)>>
                 /\ pc' = "unit"
                 /\ raised' = "None"
            ELSE /\ modules' = <<>>
                 /\ pc' = "failed"
                 /\ raised' = doc.error
    /\ op' = [NoOp EXCEPT !.name = "Module"]
    /\ UNCHANGED files
    /\ UnitFrame

\* A fix operation called on the module: the files it leaves and whether it
\* raised; op.before keeps the content the target file had.
CallFix(name, target, r) ==
    /\ pc = "unit"
    /\ files' = r.files
    /\ op' = [name |-> name, module |-> 1, raised |-> r.raised,
              before |-> files[target].content]
    /\ UNCHANGED <<pc, modules, raised>>
    /\ UnitFrame

CallFixMissingTestFile ==
    /\ modules # <<>>
    /\ CallFix("fix_missing_test_file", modules[1].test_file,
               fix_missing_test_file(modules[1], files))

CallFixTestFileDocstring ==
    /\ modules # <<>>
    /\ CallFix("fix_test_file_docstring", modules[1].test_file,
               fix_test_file_docstring(modules[1], files))

CallFixMissingRefFile ==
    /\ modules # <<>>
    /\ CallFix("fix_missing_ref_file", modules[1].ref_file,
               fix_missing_ref_file(modules[1], files))

CallFixRefFileContent ==
    /\ modules # <<>>
    /\ CallFix("fix_ref_file_content", modules[1].ref_file,
               fix_ref_file_content(modules[1], files))

\* A check called on the module: op.raised is the error it raised.
CallCheckTestFile ==
    /\ pc = "unit"
    /\ op' = [name |-> "check_test_file", module |-> 1,
              raised |-> check_test_file(modules[1], files).type,
              before |-> files[modules[1].test_file].content]
    /\ UNCHANGED <<pc, modules, raised, files>>
    /\ UnitFrame

CallCheckRefFile ==
    /\ pc = "unit"
    /\ op' = [name |-> "check_ref_file", module |-> 1,
              raised |-> check_ref_file(modules[1], files).type,
              before |-> files[modules[1].ref_file].content]
    /\ UNCHANGED <<pc, modules, raised, files>>
    /\ UnitFrame

NextModule ==
    \/ NewModule
    \/ CallFixMissingTestFile
    \/ CallFixTestFileDocstring
    \/ CallFixMissingRefFile
    \/ CallFixRefFileContent
    \/ CallCheckTestFile
    \/ CallCheckRefFile

SpecModule == InitModule /\ [][NextModule]_vars

(***************************************************************************)
(* Properties.                                                             *)
(***************************************************************************)
TestFixes == {"fix_missing_test_file", "fix_test_file_docstring"}
RefFixes == {"fix_missing_ref_file", "fix_ref_file_content"}

\* C1: every fix is self-consistent with its check: once a fix operation
\* has returned without raising, the check of the file it wrote raises no
\* error (fix_missing_test_file / fix_test_file_docstring then
\* check_test_file; fix_missing_ref_file / fix_ref_file_content then
\* check_ref_file), for every module and every prior content of the file.
\* (A file the process may write but not read is left aside: no fix can
\* make its check pass.)
C1_FixThenCheckPasses ==
    (pc = "unit" /\ op.raised = "None") =>
        /\ (op.name \in TestFixes /\ files[modules[1].test_file].r) =>
                check_test_file(modules[1], files) = NoError
        /\ (op.name \in RefFixes /\ files[modules[1].ref_file].r) =>
                check_ref_file(modules[1], files) = NoError

\* The lines of a text file as readline() yields them: ended by "\n".
FileLines(content) == SplitAt(content, FileLineEnds)

\* C10: fix_test_file_docstring changes line 1 only: a file of N > 1 lines
\* keeps N lines, line 1 becomes the expected docstring and lines 2..N are
\* the original lines 2..N; an empty file becomes just the docstring; the
\* written content ends with a newline.
C10_OnlyLineOneChanges ==
    (pc = "unit" /\ op.name = "fix_test_file_docstring" /\ op.raised = "None") =>
        LET m == modules[1]
            old == FileLines(op.before)
            content == files[m.test_file].content
            new == FileLines(content)
        IN  /\ EndsWith(content, <<NL>>)
            /\ op.before = <<>> => content = m.test_docstring \o <<NL>>
            /\ Len(old) > 1 =>
                /\ Len(new) = Len(old)
                /\ new[1] = m.test_docstring
                /\ \A i \in 2..Len(old) : new[i] = old[i]

\* The messages of the dict of check_modules, in order.
RECURSIVE Flatten(_)
Flatten(dict) ==
    IF dict = <<>> THEN <<>> ELSE Head(dict).msgs \o Flatten(Tail(dict))

\* Every outcome message the run holds so far.
Outcomes ==
    Flatten(module_msgs) \o (IF test_msg = NoMsg THEN <<>> ELSE <<test_msg>>) \o msgs

ReadErrorTexts ==
    {"Could not read test file", "Could not read API reference documentation file"}

\* An earlier invocation that returned with no read error and no failed
\* write or unlink.
CleanRun(h) ==
    /\ h.raised = "None"
    /\ h.os_failed = {}
    /\ \A i \in DOMAIN Flatten(h.module_msgs) :
            Flatten(h.module_msgs)[i].text \notin ReadErrorTexts

\* C2: a run converges in one pass: after check() ran with auto_fix and
\* auto_remove and met no read error and no failed write or unlink, a second
\* check() on the files it left yields no module outcome and no
\* unexpected-file outcome and returns False.
C2_SecondRunClean ==
    (run = 2 /\ pc = "exited" /\ auto_fix /\ auto_remove /\ CleanRun(history[1])) =>
        /\ raised = "None"
        /\ module_msgs = <<>>
        /\ msgs = <<>>
        /\ overall_errors = FALSE

\* C3: a write that fails during an auto-fix, or an unlink that fails during
\* auto-remove, is reported as an outcome message of its own and does not
\* abort the run: no exception escapes and a message names the file.
C3_OsFailureReported ==
    \A p \in os_failed :
        /\ raised = "None"
        /\ \E i \in DOMAIN Outcomes : Outcomes[i].file = p /\ Outcomes[i].tag # "[green]Fixed: "

\* C5: check_module runs its two checks independently and in order: after
\* the test-file check of a module, whatever its result, the reference-file
\* check of that module runs; the list returned holds at most two messages,
\* the test-file outcome before the reference-file outcome.
C5_BothChecksRun ==
    [][/\ pc = "test" => (pc' = "ref" /\ idx' = idx)
       /\ (pc = "ref" /\ pc' # "exited") =>
            LET returned == IF Len(module_msgs') > Len(module_msgs)
                            THEN module_msgs'[Len(module_msgs')].msgs ELSE <<>>
            IN  /\ Len(returned) <= 2
                /\ test_msg # NoMsg => (returned # <<>> /\ returned[1] = test_msg)
                /\ \A i \in DOMAIN returned :
                        returned[i].file.root = "ref" => i = Len(returned)]_vars

\* C8: the process signals failure (a non-zero exit status) if and only if
\* the run had issues, the boolean check() returned; a run with no issue
\* exits with status 0.
C8_ExitStatusSignalsIssues ==
    (pc = "exited" /\ raised = "None") => ((exit_status # 0) <=> overall_errors)

\* The failure kinds of the per-module checks.
Kind(e) ==
    CASE e.type \in {"TestFileNotFoundError", "RefFileNotFoundError"} -> "file-not-found"
      [] e.type \in {"TestFileReadingError", "RefFileReadingError"} -> "read-error"
      [] e.type = "TestFileDocstringError" ->
            IF e.found = <<>> THEN "docstring-missing" ELSE "docstring-mismatch"
      [] e.type = "RefFileContentError" -> "content-mismatch"
      [] OTHER -> "none"

\* Only the file at path p may differ between the files before and after.
OnlyChanged(p) == \A q \in DOMAIN files : q # p => files'[q] = files[q]

\* The message check_module_ref_file returned in a step that ends
\* check_module: the last message of the entry the step added, when that
\* message is about a reference file.
RefMsgReturned ==
    IF Len(module_msgs') > Len(module_msgs)
    THEN LET ms == module_msgs'[Len(module_msgs')].msgs
         IN  IF ms[Len(ms)].file.root = "ref" THEN ms[Len(ms)] ELSE NoMsg
    ELSE NoMsg

\* The fix decision of check_module in a step whose check fails, when the
\* failure kinds in set fixable are the ones auto-fix repairs: a repaired
\* failure is recorded as "Fixed" and the file holds the expected docstring
\* (the expected content); any other failure is recorded as an unresolved
\* error that carries the error's message, and no file changes.
FixDecision(fixable) ==
    /\ (pc = "test" /\ pc' # "exited") =>
        LET m == modules[idx]
            e == check_test_file(m, files)
        IN  e # NoError =>
                IF auto_fix /\ Kind(e) \in fixable
                THEN /\ test_msg' = FixedMsg(e)
                     /\ IsFile(files'[m.test_file])
                     /\ Strip(ReadLine(files'[m.test_file].content)) = m.test_docstring
                     /\ OnlyChanged(m.test_file)
                ELSE /\ test_msg' = ErrorMsg(e)
                     /\ files' = files
    /\ (pc = "ref" /\ pc' # "exited") =>
        LET m == modules[idx]
            e == check_ref_file(m, files)
        IN  e # NoError =>
                IF auto_fix /\ Kind(e) \in fixable
                THEN /\ RefMsgReturned = FixedMsg(e)
                     /\ IsFile(files'[m.ref_file])
                     /\ files'[m.ref_file].content = m.ref_content \o <<NL>>
                     /\ OnlyChanged(m.ref_file)
                ELSE /\ RefMsgReturned = ErrorMsg(e)
                     /\ files' = files

\* C4: with auto_fix a failed check is fixed, and "Fixed" recorded, exactly
\* when the failure is file-not-found or docstring/content-mismatch; a read
\* error and a test file whose first line is no docstring at all are
\* recorded as unresolved errors and the file is left unchanged, as is every
\* failure without auto_fix.
C4_FixOnlyNotFoundOrMismatch ==
    [][FixDecision({"file-not-found", "docstring-mismatch", "content-mismatch"})]_vars

\* The module file the naming convention, reversed, gives for a test file
\* (the test_ prefix dropped) and for a reference file (.md swapped for .py),
\* re-rooted under the modules root.
ReversedTest(p) ==
    Path("modules", p.dir, SubSeq(p.name, Len(TEST_) + 1, Len(p.name)))

ReversedRef(p) ==
    Path("modules", p.dir, SubSeq(p.name, 1, Len(p.name) - Len(MD)) \o PY)

KnownModuleFiles == {modules[i].module_file : i \in DOMAIN modules}

\* Message ms is the outcome of the scan for unexpected file p.
OrphanOutcome(p, text, ms) ==
    /\ ms.file = p
    /\ ms.text = text
    /\ IF auto_remove /\ files[p].d
       THEN ms.tag = "[green]Removed: " /\ ~IsFile(files'[p])
       ELSE IF auto_remove
       THEN ms.tag = "[red]Error removing: " /\ files'[p] = files[p]
       ELSE ms.tag = "[red]" /\ files'[p] = files[p]

\* A loop of the scan appends to msgs one outcome for each file of orphans,
\* and nothing else, and touches no other file.
ScanYields(orphans, text) ==
    LET new == SubSeq(msgs', Len(msgs) + 1, Len(msgs'))
    IN  /\ Len(msgs') = Len(msgs) + Cardinality(orphans)
        /\ SubSeq(msgs', 1, Len(msgs)) = msgs
        /\ \A p \in orphans : \E i \in DOMAIN new : OrphanOutcome(p, text, new[i])
        /\ \A i \in DOMAIN new : new[i].file \in orphans
        /\ \A q \in DOMAIN files : q \notin orphans => files'[q] = files[q]

\* C6: the scan yields an outcome for a file matching test_*.py under the
\* tests root, or *.md under the reference root, if and only if its reversed
\* module path is not the module_file of a known module; the outcome is
\* "Removed" when auto_remove is on and the unlink succeeds, "Error removing"
\* when the unlink fails, an unresolved "Unexpected" error (file left in
\* place) when auto_remove is off; the outcomes of the tests tree all come
\* before those of the reference tree.
C6_OrphanClassification ==
    [][/\ pc = "scan_tests" =>
            /\ msgs = <<>>
            /\ ScanYields({p \in TestGlob(files) : ReversedTest(p) \notin KnownModuleFiles},
                          "Unexpected test file")
       /\ pc = "scan_refs" =>
            /\ \A i \in DOMAIN msgs : msgs[i].file.root = "tests"
            /\ ScanYields({p \in RefGlob(files) : ReversedRef(p) \notin KnownModuleFiles},
                          "Unexpected API reference documentation file")]_vars

\* C6 witness: the scan removed an unexpected test file and then failed to
\* remove an unexpected reference file, while the files of known modules
\* were there.
C6_Witness ==
    /\ pc = "report"
    /\ auto_remove
    /\ Len(msgs) = 2
    /\ msgs[1].file.root = "tests" /\ msgs[1].tag = "[green]Removed: "
    /\ msgs[2].file.root = "ref" /\ msgs[2].tag = "[red]Error removing: "
    /\ \E i \in DOMAIN modules : IsFile(files[modules[i].test_file])

\* The lines of printed that are outcome messages (not headers).
RECURSIVE MessagesOf(_)
MessagesOf(lines) ==
    IF lines = <<>> THEN <<>>
    ELSE IF Head(lines).tag \in {"[bold]", "[bold green]"} THEN MessagesOf(Tail(lines))
    ELSE <<Head(lines)>> \o MessagesOf(Tail(lines))

\* C7: check() returns True if and only if the run produced at least one
\* outcome, and every outcome produced by check_module and by the scan for
\* unexpected files is reported: when the run is over, check() has returned
\* True exactly when there is an outcome, the dict of check_modules holds
\* the messages of exactly the modules that have some, and every outcome
\* has been printed.
C7_AllOutcomesReported ==
    pc = "exited" =>
        /\ overall_errors <=> (Outcomes # <<>>)
        /\ MessagesOf(printed) = Outcomes
        /\ \A i \in DOMAIN module_msgs : module_msgs[i].msgs # <<>>

\* C9: a module whose file stem is cli, at any depth, passes check_test_file
\* whatever the state of its expected test file: check_module yields no
\* test-file outcome for it and never creates or modifies its test file,
\* even with auto_fix; its reference-file check is still performed.
C9_EntryPointExempt ==
    [][/\ (pc = "test" /\ Stem(modules[idx].module_file.name) = STR_cli) =>
            /\ pc' = "ref" /\ idx' = idx
            /\ test_msg' = NoMsg
            /\ files' = files
       /\ (pc = "ref" /\ Stem(modules[idx].module_file.name) = STR_cli) =>
            LET m == modules[idx]
            IN  /\ test_msg = NoMsg
                /\ files'[m.test_file] = files[m.test_file]
                /\ (check_ref_file(m, files) # NoError /\ pc' # "exited") =>
                        /\ Len(module_msgs') = Len(module_msgs) + 1
                        /\ module_msgs'[Len(module_msgs')].module = idx
                        /\ Len(module_msgs'[Len(module_msgs')].msgs) = 1
                        /\ module_msgs'[Len(module_msgs')].msgs[1].file = m.ref_file
                /\ (check_ref_file(m, files) = NoError) => module_msgs' = module_msgs]_vars

\* C9 witness: with auto_fix on, the test-file check of an entry-point module
\* inside a package has passed although its test file is absent, and its
\* reference-file check, which will fail, is next.
C9_Witness ==
    /\ pc = "ref"
    /\ auto_fix
    /\ modules[idx].module_file = MSubCli
    /\ ~IsFile(files[modules[idx].test_file])
    /\ test_msg = NoMsg
    /\ check_ref_file(modules[idx], files) # NoError

\* The fatal setup error a scanned module file gives rise to, or "None":
\* the file cannot be read, or its first line, trimmed, opens with neither
\* triple-quote marker.
SetupFault(f) ==
    IF ~f.r THEN "ModuleFileReadingError"
    ELSE LET line == Strip(ReadLine(f.content))
         IN  IF Len(line) >= 3 /\ SubSeq(line, 1, 3) \in {DQ3, SQ3}
             THEN "None" ELSE "ModuleFileMissingDocstringError"

\* The module files the scan of the modules root constructs a Module for.
ScannedFiles ==
    {mf \in ModuleFiles : IsFile(modfiles[mf]) /\ mf.name[1] # "_"}

\* C11: fatal setup errors abort before any check executes: if a root
\* directory is missing, or a scanned module file is unreadable or has a
\* first line that is no triple-quoted docstring, constructing the checker
\* fails with the corresponding error, no check, fix or removal is performed
\* for any module, and no file changes, whatever auto_fix and auto_remove.
C11_SetupErrorsAbort ==
    [][(pc = "start" /\ (missing_dir # "none"
                            \/ \E mf \in ScannedFiles : SetupFault(modfiles[mf]) # "None")) =>
            /\ pc' = "exited"
            /\ IF missing_dir # "none"
               THEN raised' = "DirNotFoundError"
               ELSE \E mf \in ScannedFiles :
                        SetupFault(modfiles[mf]) # "None" /\ raised' = SetupFault(modfiles[mf])
            /\ exit_status' # 0
            /\ files' = files /\ modfiles' = modfiles
            /\ test_msg' = NoMsg /\ module_msgs' = <<>> /\ msgs' = <<>>
            /\ printed' = <<>> /\ os_failed' = {}]_vars

\* C11 witness: with auto_fix and auto_remove on, the run ended on a module
\* file without docstring while a valid module had its reference file
\* missing, or an unexpected file was there; nothing was checked.
C11_Witness ==
    /\ pc = "exited"
    /\ raised = "ModuleFileMissingDocstringError"
    /\ auto_fix /\ auto_remove
    /\ module_msgs = <<>> /\ msgs = <<>>
    /\ \/ \E mf \in ScannedFiles :
            SetupFault(modfiles[mf]) = "None" /\ ~IsFile(files[RefMirror(mf)])
       \/ IsFile(files[IndexMd])

\* The trimmed first line t with at most one marker removed from the front
\* and at most one from the back, both of the style t opens with, trimmed.
OneStyleStripped(t) ==
    LET q == SubSeq(t, 1, 3)
        front == SubSeq(t, 4, Len(t))
        back == IF Len(front) >= 3 /\ SubSeq(front, Len(front) - 2, Len(front)) = q
                THEN SubSeq(front, 1, Len(front) - 3) ELSE front
    IN  Strip(back)

\* C12: read_module_docstring strips the markers of one triple-quote style
\* only: for a first line that opens with a triple-quote marker the
\* docstring of the constructed module is the trimmed line with at most one
\* marker removed from the front and at most one from the back, both of the
\* style the line opens with; a marker of the other style directly inside
\* them is kept.
C12_OneStyleStripped ==
    (pc = "unit" /\ op.name = "Module") =>
        modules[1].module_docstring =
            OneStyleStripped(Strip(ReadLine(modfiles[modules[1].module_file].content)))

\* The expected test files and expected reference files of the known modules.
ExpectedFiles ==
    {modules[i].test_file : i \in DOMAIN modules}
        \cup {modules[i].ref_file : i \in DOMAIN modules}

\* Path p was written by the fix of a failed check of the module being
\* checked.
WrittenByFix(p) ==
    /\ auto_fix
    /\ IsFile(files'[p])
    /\ \/ pc = "test" /\ p = modules[idx].test_file
            /\ check_test_file(modules[idx], files) # NoError
       \/ pc = "ref" /\ p = modules[idx].ref_file
            /\ check_ref_file(modules[idx], files) # NoError

\* Path p was deleted by the scan, which reported it as unexpected.
DeletedAsUnexpected(p) ==
    /\ auto_remove
    /\ pc \in {"scan_tests", "scan_refs"}
    /\ IsFile(files[p]) /\ ~IsFile(files'[p])
    /\ p \notin ExpectedFiles
    /\ \E i \in DOMAIN msgs' :
            i > Len(msgs) /\ msgs'[i].file = p /\ msgs'[i].tag = "[green]Removed: "

UnscannedModuleFiles ==
    {mf \in ModuleFiles : IsFile(modfiles[mf]) /\ mf.name[1] = "_"}

\* The step adds to msgs the outcome of the scan for unexpected file p.
ReportedUnexpected(p, text) ==
    \E i \in DOMAIN msgs' : i > Len(msgs) /\ OrphanOutcome(p, text, msgs'[i])

\* C14: a test file or reference file that mirrors a module file which
\* exists but is left out of the scan because its name starts with an
\* underscore, and a *.md file of the reference tree with no module of its
\* stem (an index page), is reported as unexpected, and is deleted when
\* auto_remove is on (when the unlink fails, "Error removing" is reported).
C14_UnscannedMirrorsAreOrphans ==
    [][/\ pc = "scan_tests" =>
            \A mf \in UnscannedModuleFiles :
                IsFile(files[TestMirror(mf)]) =>
                    ReportedUnexpected(TestMirror(mf), "Unexpected test file")
       /\ pc = "scan_refs" =>
            /\ \A mf \in UnscannedModuleFiles :
                IsFile(files[RefMirror(mf)]) =>
                    ReportedUnexpected(RefMirror(mf),
                                       "Unexpected API reference documentation file")
            /\ IsFile(files[IndexMd]) =>
                    ReportedUnexpected(IndexMd,
                                       "Unexpected API reference documentation file")]_vars

\* C14 witness: with auto_remove on, the scan has deleted the test file that
\* mirrored an existing private module file and the index page.
C14_Witness ==
    /\ pc = "report"
    /\ auto_remove
    /\ IsFile(modfiles[MU])
    /\ Len(msgs) = 2
    /\ msgs[1].file = TestMirror(MU) /\ msgs[1].tag = "[green]Removed: "
    /\ msgs[2].file = IndexMd /\ msgs[2].tag = "[green]Removed: "
    /\ ~IsFile(files[TestMirror(MU)]) /\ ~IsFile(files[IndexMd])

====
